---------------------------- MODULE Spec2Model ----------------------------
(***************************************************************************)
(* Model of scripts/01_subset_views.py: the view selector (_choose_views), *)
(* the asset copier (_copy_images) and the subset assembler                *)
(* (create_view_subset), over a small file system.                         *)
(*                                                                         *)
(* Python strings are sequences of one-character strings, so that          *)
(* str.replace, pathlib's parsing, .stem and .with_suffix are computed and *)
(* not assumed.  Python floats are IEEE-754 binary64 values, computed bit  *)
(* by bit (TLC's integers are 32 bits wide, a mantissa is 53).             *)
(***************************************************************************)
EXTENDS Integers, Sequences, FiniteSets, TLC

(***************************************************************************)
(* Bounds of the model.                                                    *)
(***************************************************************************)
\* longest training manifest of a raw dataset, drawn over FramePool
MaxFrames == 2
\* longest catalog over FramePool given to the selector
MaxSmall == 3
\* longest catalog r_0 .. r_(n-1) given to the selector
MaxCatalog == 30
\* largest view_count given to the selector on the small catalogs
MaxCount == 4
\* the longest list of configurations of a batch
MaxConfigs == 2

(***************************************************************************)
(* Python values.                                                          *)
(***************************************************************************)
\* Optional[int]: <<>> is None, <<n>> is the int n
None == <<>>
Some(n) == <<n>>
IsNone(o) == o = <<>>
Val(o) == o[1]

Min(a, b) == IF a <= b THEN a ELSE b

Range(s) == {s[i] : i \in DOMAIN s}

\* list(f): the function f on 1..n as a list, its n values computed once
Listed(f) == SubSeq(f, 1, Len(f))

\* list(dict.fromkeys(s)): first occurrences, in order
RECURSIVE FromKeys(_)
FromKeys(s) ==
  IF s = <<>> THEN <<>>
  ELSE LET front == SubSeq(s, 1, Len(s) - 1)
           last  == s[Len(s)]
       IN IF last \in Range(front) THEN FromKeys(front)
          ELSE Append(FromKeys(front), last)

(***************************************************************************)
(* Strings and pathlib.                                                    *)
(***************************************************************************)
\* str.replace("./", ""): non-overlapping occurrences, left to right
RECURSIVE ReplaceDotSlash(_)
ReplaceDotSlash(s) ==
  LET At(i) == s[i] = "." /\ s[i + 1] = "/"
  IN IF \A i \in 1..(Len(s) - 1) : ~At(i) THEN s
     ELSE LET k == CHOOSE i \in 1..(Len(s) - 1) :
                     At(i) /\ \A j \in 1..(i - 1) : ~At(j)
          IN SubSeq(s, 1, k - 1) \o ReplaceDotSlash(SubSeq(s, k + 2, Len(s)))

\* s.split("/")
RECURSIVE Split(_)
Split(s) ==
  IF \A i \in DOMAIN s : s[i] # "/" THEN <<s>>
  ELSE LET k == CHOOSE i \in DOMAIN s :
                  s[i] = "/" /\ \A j \in 1..(i - 1) : s[j] # "/"
       IN <<SubSeq(s, 1, k - 1)>> \o Split(SubSeq(s, k + 1, Len(s)))

\* Path(s) for a relative s: the parts, with empty and "." components dropped
IsPart(c) == c # <<>> /\ c # <<".">>
PathOf(s) == SelectSeq(Split(s), IsPart)

\* Path.name
Name(p) == IF p = <<>> THEN <<>> ELSE p[Len(p)]

\* str.rfind("."), 0-based, -1 when absent
RFindDot(n) ==
  IF \A i \in DOMAIN n : n[i] # "." THEN -1
  ELSE (CHOOSE i \in DOMAIN n :
          n[i] = "." /\ \A j \in (i + 1)..Len(n) : n[j] # ".") - 1

\* Path.suffix
Suffix(p) ==
  LET n == Name(p)
      i == RFindDot(n)
  IN IF 0 < i /\ i < Len(n) - 1 THEN SubSeq(n, i + 1, Len(n)) ELSE <<>>

\* Path.stem
Stem(p) ==
  LET n == Name(p)
      i == RFindDot(n)
  IN IF 0 < i /\ i < Len(n) - 1 THEN SubSeq(n, 1, i) ELSE n

\* Path.with_suffix(ext) of a path with a name
WithSuffix(p, ext) == SubSeq(p, 1, Len(p) - 1) \o <<Stem(p) \o ext>>

_normalize_frame_name(file_path) == Stem(PathOf(ReplaceDotSlash(file_path)))

(***************************************************************************)
(* Python floats: IEEE-754 binary64, round to nearest, ties to even.       *)
(* A positive float is [m, e]: m the 53 mantissa bits, most significant    *)
(* first (m[1] = 1), e the exponent of m[1]; its value is                  *)
(* sum of m[j] * 2^(e - j + 1).  Zero is [m |-> <<>>, e |-> 0].            *)
(* Long division and multiplication go by limbs of LimbBits bits, so that  *)
(* every intermediate value fits TLC's 32-bit integers.                    *)
(***************************************************************************)
\* bits of a binary64 mantissa
Precision == 53
\* bits of one limb of the long arithmetic
LimbBits == 9
\* limbs that hold a mantissa and its guard bit
Limbs == 6

FloatZero == [m |-> <<>>, e |-> 0]

\* int.bit_length()
BitLength(n) == CHOOSE k \in 0..31 : n < 2 ^ k /\ (k = 0 \/ n >= 2 ^ (k - 1))

\* the bits of a natural number, most significant first (<<>> for 0)
IntBits(n) ==
  Listed([j \in 1..BitLength(n) |-> (n \div (2 ^ (BitLength(n) - j))) % 2])

\* the natural number of a bit sequence
RECURSIVE BitsInt(_)
BitsInt(b) ==
  IF b = <<>> THEN 0 ELSE 2 * BitsInt(SubSeq(b, 1, Len(b) - 1)) + b[Len(b)]

\* the bits of a sequence of limbs, most significant first
LimbsBits(l) ==
  Listed([j \in 1..(LimbBits * Len(l)) |->
            (l[(j - 1) \div LimbBits + 1]
               \div (2 ^ (LimbBits - 1 - ((j - 1) % LimbBits)))) % 2])

\* b without its leading zeros
StripZeros(b) ==
  IF \A j \in DOMAIN b : b[j] = 0 THEN <<>>
  ELSE LET k == CHOOSE j \in DOMAIN b :
                  b[j] = 1 /\ \A h \in 1..(j - 1) : b[h] = 0
       IN SubSeq(b, k, Len(b))

\* b + 1 on a bit sequence; all ones carry out into a longer sequence
IncBits(b) ==
  IF \A j \in DOMAIN b : b[j] = 1
  THEN Listed([j \in 1..(Len(b) + 1) |-> IF j = 1 THEN 1 ELSE 0])
  ELSE LET z == CHOOSE j \in DOMAIN b :
                  b[j] = 0 /\ \A h \in (j + 1)..Len(b) : b[h] = 1
       IN Listed([j \in 1..Len(b) |->
                    IF j < z THEN b[j] ELSE IF j = z THEN 1 ELSE 0])

\* The float nearest to the number whose bits are b (b[1] = 1 of weight 2^e),
\* sticky telling that the number has further nonzero bits below b.
RoundBits(b, e, sticky) ==
  IF Len(b) <= Precision
  THEN [m |-> Listed([j \in 1..Precision |-> IF j <= Len(b) THEN b[j] ELSE 0]),
        e |-> e]
  ELSE LET kept  == SubSeq(b, 1, Precision)
           guard == b[Precision + 1]
           below == sticky \/ \E j \in (Precision + 2)..Len(b) : b[j] = 1
           up    == guard = 1 /\ (below \/ kept[Precision] = 1)
           inc   == IncBits(kept)
       IN IF ~up THEN [m |-> kept, e |-> e]
          ELSE IF Len(inc) > Precision
               THEN [m |-> SubSeq(inc, 1, Precision), e |-> e + 1]
               ELSE [m |-> inc, e |-> e]

\* a, b scaled by powers of two so that b <= a < 2b: [a, b, e] with
\* (the quotient asked for) = (a / b) * 2^e
RECURSIVE Normalise(_, _, _)
Normalise(a, b, e) ==
  IF a < b THEN Normalise(2 * a, b, e - 1)
  ELSE IF a >= 2 * b THEN Normalise(a, 2 * b, e + 1)
  ELSE [a |-> a, b |-> b, e |-> e]

\* n quotient limbs of r / b (r < b), followed by the remainder left
RECURSIVE DivLimbs(_, _, _)
DivLimbs(r, b, n) ==
  IF n = 0 THEN <<r>>
  ELSE <<(r * (2 ^ LimbBits)) \div b>>
         \o DivLimbs((r * (2 ^ LimbBits)) % b, b, n - 1)

\* a / b for ints a > 0, b > 0: the correctly rounded quotient
FloatDiv(a, b) ==
  LET n == Normalise(a, b, 0)
      q == DivLimbs(n.a - n.b, n.b, Limbs)
  IN RoundBits(<<1>> \o LimbsBits(SubSeq(q, 1, Limbs)), n.e, q[Limbs + 1] # 0)

\* the limbs of a mantissa, a zero bit put before it
MantissaLimbs(m) ==
  Listed([c \in 1..Limbs |->
            BitsInt([j \in 1..LimbBits |->
                       IF c = 1 /\ j = 1 THEN 0
                       ELSE m[(c - 1) * LimbBits + j - 1]])])

\* the limbs of l * i + carry, the k lowest limbs of l still to be multiplied;
\* the first limb of the result holds all that is carried out
RECURSIVE MulLimbs(_, _, _, _)
MulLimbs(l, i, k, carry) ==
  IF k = 0 THEN <<carry>>
  ELSE MulLimbs(l, i, k - 1, (l[k] * i + carry) \div (2 ^ LimbBits))
         \o <<(l[k] * i + carry) % (2 ^ LimbBits)>>

\* i * f for an int i >= 0 (converted exactly) and a float f > 0
FloatMulInt(i, f) ==
  IF i = 0 THEN FloatZero
  ELSE LET l == MulLimbs(MantissaLimbs(f.m), i, Limbs, 0)
           p == StripZeros(IntBits(l[1]) \o LimbsBits(Tail(l)))
       IN RoundBits(p, f.e + Len(p) - Precision, FALSE)

\* int(f) for a float f >= 0 : truncation
FloatToInt(f) ==
  IF f.m = <<>> \/ f.e < 0 THEN 0
  ELSE BitsInt(SubSeq(f.m, 1, Min(f.e + 1, Precision)))

(***************************************************************************)
(* The view selector.                                                      *)
(***************************************************************************)
\* a call that returned val, and a call that raised exc
Returned(val) == [exc |-> "", val |-> val]
Raised(exc) == [exc |-> exc, val |-> <<>>]

\* frame_names, line 35
FrameNames(frames) ==
  Listed([i \in 1..Len(frames) |-> _normalize_frame_name(frames[i].file_path)])

\* the names deduplicated with the last occurrence of each kept
SelectByNamesLastKept(names) ==
  LET normalized == Listed([i \in 1..Len(names) |-> Stem(PathOf(names[i]))])
      Last(i) == \A j \in (i + 1)..Len(normalized) :
                   normalized[j] # normalized[i]
      kept == SelectSeq(Listed([i \in 1..Len(normalized) |-> i]), Last)
  IN Listed([i \in 1..Len(kept) |-> normalized[kept[i]]])

\* lines 38-41: the names, each reduced to Path(raw).stem, first occurrences
SelectByNames(names) ==
  FromKeys(Listed([i \in 1..Len(names) |-> Stem(PathOf(names[i]))]))

\* the indices taken as Python list indices: a negative one counts from the
\* end of the catalog
SelectByIndicesWrapping(frame_names, indices) ==
  LET InCatalog(idx) == -Len(frame_names) <= idx /\ idx < Len(frame_names)
      valid == SelectSeq(indices, InCatalog)
  IN FromKeys(Listed([i \in 1..Len(valid) |->
                        frame_names[(valid[i] % Len(frame_names)) + 1]]))

\* lines 44-48: the names at the indices that are positions of the catalog
SelectByIndices(frame_names, indices) ==
  LET InCatalog(idx) == 0 <= idx /\ idx < Len(frame_names)
      valid == SelectSeq(indices, InCatalog)
  IN FromKeys(Listed([i \in 1..Len(valid) |-> frame_names[valid[i] + 1]]))

\* what random.sample(population of n, k) can draw: k distinct positions
Arrangements(n, k) ==
  {d \in [1..k -> 1..n] : \A i, j \in 1..k : i # j => d[i] # d[j]}

\* the draws the call can make: those of rnd.sample where line 55 is reached
\* with a sample size sample() accepts, one empty draw elsewhere
Draws(n, view_count) ==
  IF ~IsNone(view_count) /\ 0 <= Val(view_count) /\ Val(view_count) < n
  THEN Arrangements(n, Val(view_count))
  ELSE {<<>>}

\* lines 54-55: rnd.sample(frame_names, min(view_count, len(frame_names)))
SelectRandom(frame_names, view_count, draw) ==
  LET k == Min(view_count, Len(frame_names))
  IN IF k < 0 THEN Raised("ValueError")
     ELSE Returned(Listed([i \in 1..k |-> frame_names[draw[i]]]))

\* selected_indices over range(1, view_count + 1)
SelectedIndicesFromOne(n, view_count) ==
  LET step == FloatDiv(n, view_count)
  IN Listed([i \in 1..view_count |->
               Min(FloatToInt(FloatMulInt(i, step)), n - 1)])

\* lines 58-61: selected_indices (0-based), for 0 < view_count
SelectedIndices(n, view_count) ==
  LET step == FloatDiv(n, view_count)
  IN Listed([i \in 1..view_count |->
               Min(FloatToInt(FloatMulInt(i - 1, step)), n - 1)])

\* lines 62-68: the loop over selected_indices from its k-th entry on; the
\* indices (0-based) it appends
RECURSIVE CollisionLoop(_, _, _, _, _)
CollisionLoop(selected_indices, n, k, seen, selected) ==
  IF k > Len(selected_indices) THEN selected
  ELSE LET idx == IF selected_indices[k] \in seen
                  THEN Min(selected_indices[k] + 1, n - 1)
                  ELSE selected_indices[k]
       IN CollisionLoop(selected_indices, n, k + 1, seen \cup {idx},
                        Append(selected, idx))

\* the positions (0-based) the uniform branch selects, for 0 < view_count
UniformPositions(n, view_count) ==
  CollisionLoop(SelectedIndices(n, view_count), n, 1, {}, <<>>)

\* lines 58-69
SelectUniform(frame_names, view_count) ==
  IF view_count = 0 THEN Raised("ZeroDivisionError")
  ELSE IF view_count < 0 THEN Returned(<<>>)
  ELSE LET pos == UniformPositions(Len(frame_names), view_count)
       IN Returned(Listed([i \in 1..Len(pos) |-> frame_names[pos[i] + 1]]))

\* _choose_views; draw is what rnd.sample draws when it is called
_choose_views(frames, view_count, indices, names, strategy, draw) ==
  LET frame_names == FrameNames(frames)
  IN IF names # <<>> THEN Returned(SelectByNames(names))
     ELSE IF indices # <<>>
          THEN Returned(SelectByIndices(frame_names, indices))
     ELSE IF IsNone(view_count) \/ Val(view_count) >= Len(frame_names)
          THEN Returned(frame_names)
     ELSE IF strategy = "random"
          THEN SelectRandom(frame_names, Val(view_count), draw)
     ELSE SelectUniform(frame_names, Val(view_count))

(***************************************************************************)
(* The inputs the model draws.                                             *)
(***************************************************************************)
\* str(i) for i >= 0
Digits == <<"0", "1", "2", "3", "4", "5", "6", "7", "8", "9">>
RECURSIVE DecStr(_)
DecStr(i) ==
  IF i < 10 THEN <<Digits[i + 1]>>
  ELSE DecStr(i \div 10) \o <<Digits[(i % 10) + 1]>>

Frame(file_path) == [file_path |-> file_path]

\* "./t/a", "./u/a" (the same name, another asset), "./t/b"
FramePool ==
  {Frame(<<".", "/", "t", "/", "a">>), Frame(<<".", "/", "u", "/", "a">>), Frame(<<".", "/", "t", "/", "b">>)}

\* the catalogs of at most n frames over FramePool
RECURSIVE CatalogsUpTo(_)
CatalogsUpTo(n) ==
  IF n = 0 THEN {<<>>}
  ELSE CatalogsUpTo(n - 1)
         \cup {Append(c, f) : c \in {d \in CatalogsUpTo(n - 1) : Len(d) = n - 1},
                              f \in FramePool}

\* the catalog "./t/r_0" .. "./t/r_(n-1)"
RCatalog(n) ==
  Listed([i \in 1..n |-> Frame(<<".", "/", "t", "/", "r", "_">> \o DecStr(i - 1))])

\* names=["b", "a", "b"]; names=["a.png", "v/a", "./t/b"]
NamesPool ==
  {<<>>,
   <<<<"b">>, <<"a">>, <<"b">>>>,
   <<<<"a", ".", "p", "n", "g">>, <<"v", "/", "a">>, <<".", "/", "t", "/", "b">>>>}

\* indices=[0, 4, 10, -1]; indices=[2, 1, -3, 1, 0]
IndicesPool == {<<>>, <<0, 4, 10, -1>>, <<2, 1, -3, 1, 0>>}

Strategies == {"uniform", "random"}
Seeds == {None, Some(7)}

\* a call of _choose_views not yet made
SelectorCall(frames, view_count, indices, names, strategy, seed) ==
  [frames |-> frames, view_count |-> view_count, indices |-> indices,
   names |-> names, strategy |-> strategy, seed |-> seed,
   pc |-> "call", result |-> Returned(<<>>)]

\* every policy on the small catalogs
SmallCalls ==
  {SelectorCall(c, v, i, n, s, d) :
     c \in CatalogsUpTo(MaxSmall),
     v \in {None} \cup {Some(k) : k \in (-1)..MaxCount},
     i \in IndicesPool, n \in NamesPool, s \in Strategies, d \in Seeds}

\* the uniform policy, and the index policies, on the catalogs r_0 .. r_(n-1)
LongCalls ==
  {SelectorCall(RCatalog(n), Some(k), <<>>, <<>>, "uniform", None) :
     n \in 1..MaxCatalog, k \in 1..MaxCatalog}
  \cup {SelectorCall(RCatalog(n), None, i, <<>>, "uniform", None) :
          n \in 1..MaxCatalog, i \in IndicesPool}

(***************************************************************************)
(* The file system, the asset copier and the subset assembler.             *)
(*                                                                         *)
(* A manifest is [meta, frames]: meta stands for every top-level field but *)
(* "frames".  A file that may be absent is <<>> (absent) or <<content>>.   *)
(* A directory is [exists, manifests, images]: the three manifest files    *)
(* and the set of image paths below it, each a pathlib path (its parts).   *)
(***************************************************************************)
Absent == <<>>
Present(content) == <<content>>
Exists(file) == file # <<>>
Content(file) == file[1]

SplitNames == <<"train", "val", "test">>

NoManifests == [n \in Range(SplitNames) |-> Absent]

\* subset_dir.mkdir() alone: what is in the directory stays
KeepDir(dir) == [dir EXCEPT !.exists = TRUE]

\* lines 106-108: shutil.rmtree(subset_dir), subset_dir.mkdir()
RecreateDir(dir) == [exists |-> TRUE, manifests |-> NoManifests, images |-> {}]

\* line 115: view_count or selection.get("view_count")
OrElse(view_count, other) ==
  IF IsNone(view_count) \/ Val(view_count) = 0 THEN other ELSE view_count

\* the held-out manifests filtered like the training manifest
UseFullNever(full_test_set, is_train) == FALSE

\* line 144
UseFull(full_test_set, is_train) == full_test_set /\ ~is_train

\* the file_path itself looked up in selected_set, not the normalized name
FilterByPath(frames, selected_set) ==
  LET Selected(frame) == frame.file_path \in selected_set
  IN SelectSeq(frames, Selected)

\* lines 148-152
FilterFrames(frames, selected_set) ==
  LET Selected(frame) == _normalize_frame_name(frame.file_path) \in selected_set
  IN SelectSeq(frames, Selected)

\* lines 142-153: the manifest written for one transform file
Assembled(data, is_train, full_test_set, selected_set) ==
  [data EXCEPT !.frames = IF UseFull(full_test_set, is_train)
                          THEN data.frames
                          ELSE FilterFrames(data.frames, selected_set)]

\* lines 132-136: the transform files of raw_dir, train first
TransformFiles(raw) ==
  SelectSeq(SplitNames, LAMBDA n : n = "train" \/ Exists(raw.manifests[n]))

\* lines 141-157: frames_to_copy after the k first transform files
RECURSIVE FramesToCopy(_, _, _)
FramesToCopy(written, files, k) ==
  IF k = 0 THEN <<>>
  ELSE FramesToCopy(written, files, k - 1) \o Content(written[files[k]]).frames

\* line 80
RelPath(frame) == PathOf(ReplaceDotSlash(frame.file_path))

\* no destination remembered
NeverCopied(dest, copied) == FALSE

\* line 83: whether the destination was copied before
AlreadyCopied(dest, copied) == dest \in copied

\* _copy_images from its k-th frame on.  images are the image files of
\* subset_dir, copied is the set of line 78, copies the calls of shutil.copy2
\* made so far.  with_suffix raises ValueError for a path with no name,
\* copy2 raises FileNotFoundError for a missing source.
RECURSIVE CopyLoop(_, _, _, _, _, _, _)
CopyLoop(frames, k, raw_images, extension, images, copied, copies) ==
  IF k > Len(frames)
  THEN [exc |-> "", images |-> images, copies |-> copies]
  ELSE LET rel_path == RelPath(frames[k])
           dest == WithSuffix(rel_path, extension)
       IN IF Name(rel_path) = <<>>
          THEN [exc |-> "ValueError", images |-> images, copies |-> copies]
          ELSE IF AlreadyCopied(dest, copied)
          THEN CopyLoop(frames, k + 1, raw_images, extension, images, copied,
                        copies)
          ELSE IF dest \notin raw_images
          THEN [exc |-> "FileNotFoundError", images |-> images,
                copies |-> copies]
          ELSE CopyLoop(frames, k + 1, raw_images, extension,
                        images \cup {dest}, copied \cup {dest},
                        Append(copies, dest))

_copy_images(frames, raw_images, subset_images, extension) ==
  CopyLoop(frames, 1, raw_images, extension, subset_images, {}, <<>>)

\* the summary a call returns, and what is recorded of a call that raised
Outcome(dir, status, selected_views, copies) ==
  [dir |-> dir, status |-> status, selected_views |-> selected_views,
   copies |-> copies]

\* create_view_subset on the raw dataset raw and the subset directory dir;
\* draw is what rnd.sample draws if the selector calls it
create_view_subset(raw, dir, a, draw) ==
  LET fresh      == RecreateDir(dir)
      selection  == a.selection
      view_count == OrElse(a.view_count, selection.view_count)
  IN IF ~Exists(raw.manifests["train"])
     THEN Outcome(fresh, "FileNotFoundError", <<>>, <<>>)
     ELSE
       LET base_frames == Content(raw.manifests["train"]).frames
           chosen == _choose_views(base_frames, view_count, selection.indices,
                                   selection.names, selection.strategy, draw)
       IN IF chosen.exc # ""
          THEN Outcome(fresh, chosen.exc, <<>>, <<>>)
          ELSE
            LET selected_set == Range(chosen.val)
                files == TransformFiles(raw)
                Written(n) ==
                  IF n \in Range(files)
                  THEN Present(Assembled(Content(raw.manifests[n]), n = "train",
                                         a.full_test_set, selected_set))
                  ELSE fresh.manifests[n]
                written == [train |-> Written("train"), val |-> Written("val"),
                            test |-> Written("test")]
                copy == _copy_images(FramesToCopy(written, files, Len(files)),
                                     raw.images, fresh.images, a.extension)
            IN Outcome([exists |-> TRUE, manifests |-> written,
                        images |-> copy.images],
                       IF copy.exc = "" THEN "ok" ELSE copy.exc,
                       chosen.val, copy.copies)

(***************************************************************************)
(* The raw datasets and the calls of create_view_subset the model draws.   *)
(***************************************************************************)
\* extension=".png"
PNG == <<".", "p", "n", "g">>

Manifest(meta, frames) == [meta |-> meta, frames |-> frames]

\* transforms_val.json: "./v/b"
ValManifest == Manifest("val", <<Frame(<<".", "/", "v", "/", "b">>)>>)

\* transforms_test.json: "./e/a", "e/a.x" (the same name and asset as
\* "./e/a"), "./e/b", "./e/c"
TestManifest ==
  Manifest("test", <<Frame(<<".", "/", "e", "/", "a">>), Frame(<<"e", "/", "a", ".", "x">>),
                     Frame(<<".", "/", "e", "/", "b">>), Frame(<<".", "/", "e", "/", "c">>)>>)

\* the image file of every frame of the pool and of the held-out manifests
AllImages ==
  {WithSuffix(RelPath(f), PNG) :
     f \in FramePool \cup Range(ValManifest.frames)
                     \cup Range(TestManifest.frames)}

\* the held-out manifests and the image files a raw dataset may have: the
\* test manifest alone, both, and both with the image of "./t/b" missing
RawRest ==
  {[val |-> Absent, test |-> Present(TestManifest), images |-> AllImages],
   [val |-> Present(ValManifest), test |-> Present(TestManifest),
    images |-> AllImages],
   [val |-> Present(ValManifest), test |-> Present(TestManifest),
    images |-> AllImages \ {WithSuffix(RelPath(Frame(<<".", "/", "t", "/", "b">>)), PNG)}]}

RawDataset(train, rest) ==
  [manifests |-> [n \in Range(SplitNames) |->
                    IF n = "train" THEN train
                    ELSE IF n = "val" THEN rest.val ELSE rest.test],
   images |-> rest.images]

RawDatasets ==
  {RawDataset(t, r) :
     t \in {Absent} \cup {Present(Manifest("train", c)) :
                            c \in CatalogsUpTo(MaxFrames)},
     r \in RawRest}

\* a subset directory that does not exist yet, and one left by an earlier run
NoDir == [exists |-> FALSE, manifests |-> NoManifests, images |-> {}]
StaleDir ==
  [exists |-> TRUE,
   manifests |-> [NoManifests EXCEPT
                    !["val"] = Present(Manifest("old", <<Frame(<<".", "/", "o", "/", "z">>)>>))],
   images |-> {WithSuffix(RelPath(Frame(<<".", "/", "o", "/", "z">>)), PNG)}]

Selection(indices, names, strategy, seed, view_count) ==
  [indices |-> indices, names |-> names, strategy |-> strategy,
   seed |-> seed, view_count |-> view_count]

\* the selection policies: (view_count, selection)
Policies ==
  {<<None, Selection(<<>>, <<<<"b">>, <<"a", ".", "p", "n", "g">>, <<"b">>>>, "uniform", None, None)>>,
   <<Some(1), Selection(<<1, 0, 5, -1, 0>>, <<>>, "uniform", None, None)>>,
   <<None, Selection(<<>>, <<>>, "uniform", None, None)>>,
   <<Some(0), Selection(<<>>, <<>>, "uniform", None, Some(0))>>,
   <<None, Selection(<<>>, <<>>, "uniform", None, Some(1))>>,
   <<Some(1), Selection(<<>>, <<>>, "random", None, Some(1))>>,
   <<Some(1), Selection(<<>>, <<>>, "random", Some(7), Some(1))>>,
   <<Some(2), Selection(<<>>, <<>>, "random", None, Some(2))>>}

ArgsPool ==
  {[view_count |-> p[1], selection |-> p[2], extension |-> PNG,
    full_test_set |-> f] : p \in Policies, f \in BOOLEAN}

(***************************************************************************)
(* State.                                                                  *)
(***************************************************************************)
VARIABLES
  \* the raw dataset: raw_data_dir's manifests and image files
  raw,
  \* subset_dir
  subset,
  \* the last call of create_view_subset: its arguments, whether the call
  \* before it had the same arguments, how it ended ("idle" before any call,
  \* "ok", or the exception raised), the selected views and the calls of
  \* shutil.copy2 it made
  last,
  \* what random.Random(seed).sample(population of n, k) drew, for the seeds
  \* used so far: a seeded generator draws the same again
  rngMemo,
  \* one call of _choose_views: its arguments, pc and result
  sel,
  \* where subset_dir lies: "apart" from raw_data_dir, the "same" directory,
  \* or a directory "above" it
  place,
  \* one run of run_experiment: its configurations, the position of the
  \* loop, the configurations attempted, what was printed, how it ended
  batch

vars == <<raw, subset, last, rngMemo, sel, place, batch>>

NoBatch ==
  [pc |-> "idle", configs |-> <<>>, next |-> 1, attempted |-> <<>>,
   log |-> <<>>, exc |-> ""]

NoCall ==
  [args |-> [view_count |-> None,
             selection |-> Selection(<<>>, <<>>, "uniform", None, None),
             extension |-> PNG, full_test_set |-> TRUE],
   repeated |-> FALSE, status |-> "idle", selected_views |-> <<>>,
   copies |-> <<>>]

NoSelectorCall ==
  [SelectorCall(<<>>, None, <<>>, <<>>, "uniform", None) EXCEPT !.pc = "idle"]

\* whether _choose_views reaches rnd.sample (line 55) with a sample size
\* sample() accepts
ReachesSample(frames, view_count, indices, names, strategy) ==
  /\ names = <<>>
  /\ indices = <<>>
  /\ ~IsNone(view_count)
  /\ 0 <= Val(view_count)
  /\ Val(view_count) < Len(frames)
  /\ strategy = "random"

\* the same for a call of create_view_subset
CallReachesSample(r, a) ==
  /\ Exists(r.manifests["train"])
  /\ ReachesSample(Content(r.manifests["train"]).frames,
                   OrElse(a.view_count, a.selection.view_count),
                   a.selection.indices, a.selection.names,
                   a.selection.strategy)

\* random.Random(seed): the entry of rngMemo for this seed and sample
MemoKey(r, a) ==
  [seed |-> a.selection.seed,
   n |-> Len(Content(r.manifests["train"]).frames),
   k |-> Val(OrElse(a.view_count, a.selection.view_count))]

Drawn(memo, key) == {e \in memo : e.key = key}

(***************************************************************************)
(* The subset assembler on the file system.                                *)
(***************************************************************************)
Init ==
  /\ raw \in RawDatasets
  /\ subset \in {NoDir, StaleDir}
  /\ last = NoCall
  /\ rngMemo = {}
  /\ sel = NoSelectorCall
  /\ place = "apart"
  /\ batch = NoBatch

Called(a, draw) ==
  \E out \in {create_view_subset(raw, subset, a, draw)} :
    /\ subset' = out.dir
    /\ last' = [args |-> a,
                repeated |-> last.status # "idle" /\ last.args = a,
                status |-> out.status,
                selected_views |-> out.selected_views,
                copies |-> out.copies]

CreateViewSubset ==
  \E a \in ArgsPool :
    /\ IF ~CallReachesSample(raw, a)
       THEN Called(a, <<>>) /\ UNCHANGED rngMemo
       ELSE IF IsNone(a.selection.seed)
       THEN /\ \E draw \in Draws(MemoKey(raw, a).n, Some(MemoKey(raw, a).k)) :
                 Called(a, draw)
            /\ UNCHANGED rngMemo
       ELSE IF Drawn(rngMemo, MemoKey(raw, a)) # {}
       THEN /\ \E e \in Drawn(rngMemo, MemoKey(raw, a)) : Called(a, e.draw)
            /\ UNCHANGED rngMemo
       ELSE \E draw \in Draws(MemoKey(raw, a).n, Some(MemoKey(raw, a).k)) :
              /\ Called(a, draw)
              /\ rngMemo' = rngMemo \cup {[key |-> MemoKey(raw, a),
                                           draw |-> draw]}
    /\ UNCHANGED <<raw, sel, place, batch>>

Next == CreateViewSubset

Spec == Init /\ [][Next]_vars

(***************************************************************************)
(* The view selector alone, on drawn inputs.                               *)
(***************************************************************************)
InitSelect ==
  /\ sel \in SmallCalls \cup LongCalls
  /\ raw = RawDataset(Absent, [val |-> Absent, test |-> Absent, images |-> {}])
  /\ subset = NoDir
  /\ last = NoCall
  /\ rngMemo = {}
  /\ place = "apart"
  /\ batch = NoBatch

ChooseViews ==
  /\ sel.pc = "call"
  /\ \E draw \in (IF ReachesSample(sel.frames, sel.view_count, sel.indices,
                                   sel.names, sel.strategy)
                  THEN Draws(Len(sel.frames), sel.view_count) ELSE {<<>>}) :
       sel' = [sel EXCEPT
                 !.pc = "done",
                 !.result = _choose_views(sel.frames, sel.view_count,
                                          sel.indices, sel.names,
                                          sel.strategy, draw)]
  /\ UNCHANGED <<raw, subset, last, rngMemo, place, batch>>

NextSelect == ChooseViews

SpecSelect == InitSelect /\ [][NextSelect]_vars

(***************************************************************************)
(* The subset assembler when subset_dir may be raw_data_dir itself or a    *)
(* directory above it.                                                     *)
(***************************************************************************)
Places == {"apart", "same", "above"}

EmptyDir == [exists |-> TRUE, manifests |-> NoManifests, images |-> {}]

\* lines 106-107 seen from raw_data_dir: shutil.rmtree(subset_dir) removes
\* the raw dataset too when subset_dir is raw_data_dir or a directory above
RawAfterRmtree(r, dir, p) ==
  IF p # "apart" /\ dir.exists
  THEN [manifests |-> NoManifests, images |-> {}]
  ELSE r

\* subset_dir as the call finds it: the raw dataset itself when it is the
\* same directory, an existing directory when it lies above
SubsetDirs(r, p) ==
  IF p = "same"
  THEN {[exists |-> TRUE, manifests |-> r.manifests, images |-> r.images]}
  ELSE IF p = "above" THEN {EmptyDir, StaleDir}
  ELSE {NoDir, StaleDir}

InitPlaced ==
  /\ raw \in RawDatasets
  /\ place \in Places
  /\ subset \in SubsetDirs(raw, place)
  /\ last = NoCall
  /\ rngMemo = {}
  /\ sel = NoSelectorCall
  /\ batch = NoBatch

\* the call on the raw dataset r that lines 106-108 leave
CalledOn(r, a, draw) ==
  \E out \in {create_view_subset(r, subset, a, draw)} :
    /\ subset' = out.dir
    /\ last' = [args |-> a,
                repeated |-> last.status # "idle" /\ last.args = a,
                status |-> out.status,
                selected_views |-> out.selected_views,
                copies |-> out.copies]

CreateViewSubsetPlaced ==
  \E a \in ArgsPool :
    \E r \in {RawAfterRmtree(raw, subset, place)} :
      /\ raw' = r
      /\ IF ~CallReachesSample(r, a)
         THEN CalledOn(r, a, <<>>) /\ UNCHANGED rngMemo
         ELSE IF IsNone(a.selection.seed)
         THEN /\ \E draw \in Draws(MemoKey(r, a).n, Some(MemoKey(r, a).k)) :
                   CalledOn(r, a, draw)
              /\ UNCHANGED rngMemo
         ELSE IF Drawn(rngMemo, MemoKey(r, a)) # {}
         THEN /\ \E e \in Drawn(rngMemo, MemoKey(r, a)) : CalledOn(r, a, e.draw)
              /\ UNCHANGED rngMemo
         ELSE \E draw \in Draws(MemoKey(r, a).n, Some(MemoKey(r, a).k)) :
                /\ CalledOn(r, a, draw)
                /\ rngMemo' = rngMemo \cup {[key |-> MemoKey(r, a),
                                             draw |-> draw]}
      /\ UNCHANGED <<sel, place, batch>>

NextPlaced == CreateViewSubsetPlaced

SpecPlaced == InitPlaced /\ [][NextPlaced]_vars

(***************************************************************************)
(* The experiment driver: run_experiment of 04_run_experiment.py.  The     *)
(* trainer and the evaluator are external commands: a call of either       *)
(* returns, or raises subprocess.CalledProcessError.                       *)
(***************************************************************************)
TwoFrames ==
  Present(Manifest("train", <<Frame(<<".", "/", "t", "/", "a">>),
                              Frame(<<".", "/", "t", "/", "b">>)>>))

\* a complete raw dataset, one with no transforms_train.json, and one with
\* the image of "./t/b" missing
GoodRaw ==
  RawDataset(TwoFrames, [val |-> Present(ValManifest),
                         test |-> Present(TestManifest), images |-> AllImages])
NoTrainRaw ==
  RawDataset(Absent, [val |-> Present(ValManifest),
                      test |-> Present(TestManifest), images |-> AllImages])
NoImageRaw ==
  RawDataset(TwoFrames,
             [val |-> Present(ValManifest), test |-> Present(TestManifest),
              images |-> AllImages
                           \ {WithSuffix(RelPath(Frame(<<".", "/", "t", "/", "b">>)), PNG)}])

\* a configuration file: subset.raw_dir (None, or the dataset the directory
\* it names holds) and subset.full_test_set; subset.view_count is 2
ConfigPool ==
  {[raw_dir |-> d, full_test_set |-> f] :
     d \in {None, Some(NoTrainRaw), Some(NoImageRaw)}, f \in BOOLEAN}

RECURSIVE ConfigLists(_)
ConfigLists(n) ==
  IF n = 0 THEN {<<>>}
  ELSE ConfigLists(n - 1)
         \cup {Append(l, c) : l \in {m \in ConfigLists(n - 1) : Len(m) = n - 1},
                              c \in ConfigPool}

\* lines 52-57 and 62-65: the arguments _run_single_config passes
ConfigArgs(c) ==
  [view_count |-> Some(2),
   selection |-> Selection(<<>>, <<>>, "uniform", None, Some(2)),
   extension |-> PNG, full_test_set |-> c.full_test_set]

\* line 54: subset.raw_dir or raw_data_dir
ConfigRaw(c, raw_data_dir) ==
  IF IsNone(c.raw_dir) THEN raw_data_dir ELSE Val(c.raw_dir)

\* what subprocess.run(command, check=True) does
CommandOutcomes == {"", "CalledProcessError"}

\* line 118: except subprocess.CalledProcessError
Caught(exc) == exc = "CalledProcessError"

InitBatch ==
  /\ raw \in {GoodRaw, NoTrainRaw}
  /\ subset \in {NoDir, StaleDir}
  /\ last = NoCall
  /\ rngMemo = {}
  /\ sel = NoSelectorCall
  /\ place = "apart"
  /\ batch \in {[NoBatch EXCEPT !.configs = l] : l \in ConfigLists(MaxConfigs)}

\* lines 99-106: the configurations are listed; none is an error
StartBatch ==
  /\ batch.pc = "idle"
  /\ batch' = IF batch.configs = <<>>
              THEN [batch EXCEPT !.pc = "aborted", !.exc = "FileNotFoundError"]
              ELSE [batch EXCEPT !.pc = "running"]
  /\ UNCHANGED <<raw, subset, last, rngMemo, sel, place>>

\* _run_single_config, lines 49-95: the exception it ends with ("" for
\* none), given what the subset build, the trainer and the evaluator did
SingleConfigEnds(built, trained, evaluated) ==
  IF built # "ok" THEN built
  ELSE IF trained # "" THEN trained
  ELSE evaluated

\* lines 108-120: one turn of the loop
RunSingleConfig ==
  /\ batch.pc = "running"
  /\ batch.next <= Len(batch.configs)
  /\ LET c == batch.configs[batch.next]
     IN \E out \in {create_view_subset(ConfigRaw(c, raw), subset,
                                        ConfigArgs(c), <<>>)} :
          \E trained, evaluated \in CommandOutcomes :
            \E exc \in {SingleConfigEnds(out.status, trained, evaluated)} :
              /\ subset' = out.dir
              /\ last' = [args |-> ConfigArgs(c),
                          repeated |-> last.status # "idle"
                                         /\ last.args = ConfigArgs(c),
                          status |-> out.status,
                          selected_views |-> out.selected_views,
                          copies |-> out.copies]
              /\ batch' =
                   IF exc = ""
                   THEN [batch EXCEPT
                           !.attempted = Append(@, batch.next),
                           !.log = Append(@, <<"Running", batch.next>>),
                           !.next = @ + 1]
                   ELSE IF Caught(exc)
                   THEN [batch EXCEPT
                           !.attempted = Append(@, batch.next),
                           !.log = @ \o <<<<"Running", batch.next>>,
                                          <<"Command failed", batch.next>>>>,
                           !.next = @ + 1]
                   ELSE [batch EXCEPT
                           !.attempted = Append(@, batch.next),
                           !.log = Append(@, <<"Running", batch.next>>),
                           !.pc = "aborted",
                           !.exc = exc]
  /\ UNCHANGED <<raw, rngMemo, sel, place>>

\* the loop of line 108 is over
FinishBatch ==
  /\ batch.pc = "running"
  /\ batch.next > Len(batch.configs)
  /\ batch' = [batch EXCEPT !.pc = "finished"]
  /\ UNCHANGED <<raw, subset, last, rngMemo, sel, place>>

NextBatch == StartBatch \/ RunSingleConfig \/ FinishBatch

SpecBatch == InitBatch /\ [][NextBatch]_vars

(***************************************************************************)
(* Properties of the subset assembler (specification Spec).                *)
(***************************************************************************)
HeldOut == {"val", "test"}

NoDuplicates(s) == \A i, j \in DOMAIN s : i # j => s[i] # s[j]

\* the training manifest of the raw dataset
TrainFrames == Content(raw.manifests["train"]).frames

\* the call has run up to the writing of the manifests
ManifestsWritten == last.status # "idle" /\ Exists(subset.manifests["train"])

\* every held-out manifest of the subset directory has the frames of the raw
\* manifest, in its order
HeldOutKept ==
  \A n \in HeldOut :
    Exists(subset.manifests[n]) =>
      /\ Exists(raw.manifests[n])
      /\ Content(subset.manifests[n]).frames = Content(raw.manifests[n]).frames

\* C1: with full_test_set=True every validation/test manifest written keeps
\* all frames of the raw manifest in order, whatever the policy; and a later
\* build with full_test_set=True, whatever its policy, writes the same
\* validation/test manifests again.
C1_HeldOutComparable ==
  [][last'.args.full_test_set =>
       /\ HeldOutKept'
       /\ (ManifestsWritten /\ ManifestsWritten' /\ last.args.full_test_set)
            => \A n \in HeldOut : subset'.manifests[n] = subset.manifests[n]]_vars

\* C1 witness: a build with full_test_set=True that selected fewer views than
\* the training manifest has, and wrote a test manifest with frames outside
\* the selection
C1_Witness ==
  /\ last.status = "ok"
  /\ last.args.full_test_set
  /\ Len(last.selected_views) < Len(TrainFrames)
  /\ Exists(subset.manifests["test"])
  /\ \E f \in Range(Content(subset.manifests["test"]).frames) :
       _normalize_frame_name(f.file_path) \notin Range(last.selected_views)

\* out is the sub-sequence of the frames of src whose normalized name is in
\* views: as long as the set of those frames, and the k-th of them at place k
SubsequenceIn(out, src, views) ==
  LET keep == {i \in DOMAIN src :
                 _normalize_frame_name(src[i].file_path) \in views}
  IN /\ Len(out) = Cardinality(keep)
     /\ \A i \in keep : out[Cardinality({j \in keep : j <= i})] = src[i]

\* C2: the training manifest written, and the validation/test manifests
\* written with full_test_set=False, hold exactly the frames of the raw
\* manifest whose normalized name is in the Selected View Set, in source
\* order.
C2_FilteredBySelection ==
  ManifestsWritten =>
    \A n \in Range(SplitNames) :
      (Exists(subset.manifests[n]) /\ (n = "train" \/ ~last.args.full_test_set))
        => SubsequenceIn(Content(subset.manifests[n]).frames,
                         Content(raw.manifests[n]).frames,
                         Range(last.selected_views))

\* C2 witness: a build that kept some frames of the training manifest and
\* dropped others, and filtered the test manifest too
C2_Witness ==
  /\ last.status = "ok"
  /\ ~last.args.full_test_set
  /\ Content(subset.manifests["train"]).frames # <<>>
  /\ Len(Content(subset.manifests["train"]).frames) < Len(TrainFrames)
  /\ Exists(subset.manifests["test"])
  /\ Content(subset.manifests["test"]).frames # <<>>
  /\ Content(subset.manifests["test"]).frames
       # Content(raw.manifests["test"]).frames

\* C3: with no transforms_train.json in raw_dir the call fails and leaves an
\* existing subset directory and its contents untouched.
C3_ValidatesBeforeDestroying ==
  [][~Exists(raw.manifests["train"]) =>
       /\ last'.status = "FileNotFoundError"
       /\ subset.exists => subset' = subset]_vars

\* the call draws a random sample with no seed
UnseededSample(a) == CallReachesSample(raw, a) /\ IsNone(a.selection.seed)

\* every file of the subset directory was written by the last call
NoStaleFile ==
  /\ subset.images \subseteq Range(last.copies)
  /\ \A n \in Range(SplitNames) :
       Exists(subset.manifests[n]) =>
         /\ Exists(raw.manifests[n])
         /\ Content(subset.manifests[n]).meta = Content(raw.manifests[n]).meta

\* a successful call after a successful call with the same arguments
SameCallAgain ==
  last.status = "ok" /\ last'.status = "ok" /\ last'.args = last.args

\* C4 as stated: a second call with the same arguments leaves the subset
\* directory as the first left it, and a successful call leaves no file of
\* an earlier call.
C4_IdempotentRebuild ==
  [][/\ SameCallAgain => subset' = subset
     /\ last'.status = "ok" => NoStaleFile']_vars

\* C4 as amended: the same, for calls that do not draw an unseeded random
\* sample (strategy "random" reached with seed None draws anew on every call).
C4_IdempotentRebuildSeeded ==
  [][/\ (SameCallAgain /\ ~UnseededSample(last'.args)) => subset' = subset
     /\ last'.status = "ok" => NoStaleFile']_vars

\* C4 witness: a seeded random build made a second time with the same
\* arguments
C4_Witness ==
  /\ last.status = "ok"
  /\ last.repeated
  /\ CallReachesSample(raw, last.args)
  /\ ~IsNone(last.args.selection.seed)
  /\ subset.images # {}

\* the frames retained across the manifests of the subset directory
RetainedFrames ==
  UNION {Range(Content(subset.manifests[n]).frames) :
           n \in {m \in Range(SplitNames) : Exists(subset.manifests[m])}}

\* the destination of a frame's image below subset_dir
Destination(frame) == WithSuffix(RelPath(frame), last.args.extension)

\* C5: after a successful call the image files of the subset directory are
\* exactly the destinations of the retained frames, and each destination
\* was copied once.
C5_AssetsExact ==
  last.status = "ok" =>
    /\ subset.images = {Destination(f) : f \in RetainedFrames}
    /\ Range(last.copies) = subset.images
    /\ NoDuplicates(last.copies)

\* C5 witness: a successful build in which two retained frames with
\* different file paths have the same destination
C5_Witness ==
  /\ last.status = "ok"
  /\ \E f, g \in RetainedFrames :
       f # g /\ Destination(f) = Destination(g)
  /\ Cardinality(subset.images) > 1

(***************************************************************************)
(* Properties of the view selector (specification SpecSelect).             *)
(***************************************************************************)
Done == sel.pc = "done"

\* the call resolves in the uniform branch with 0 < view_count < N
UniformCase ==
  /\ sel.names = <<>>
  /\ sel.indices = <<>>
  /\ sel.strategy = "uniform"
  /\ ~IsNone(sel.view_count)
  /\ 0 < Val(sel.view_count)
  /\ Val(sel.view_count) < Len(sel.frames)

\* the names at the (0-based) positions pos of the catalog
NamesAt(pos) ==
  [i \in 1..Len(pos) |->
     _normalize_frame_name(sel.frames[pos[i] + 1].file_path)]

\* out lists the distinct values of src, each once, in the order of their
\* first occurrences in src
FirstOccurrencesOf(out, src) ==
  LET First(v) == CHOOSE i \in DOMAIN src :
                    src[i] = v /\ \A j \in 1..(i - 1) : src[j] # v
  IN /\ NoDuplicates(out)
     /\ Range(out) = Range(src)
     /\ \A i, j \in DOMAIN out : i < j => First(out[i]) < First(out[j])

\* C6: the list _choose_views returns has no duplicates, whatever the
\* catalog and the policy.
C6_DuplicateFree == (Done /\ sel.result.exc = "") => NoDuplicates(sel.result.val)

\* C7: _choose_views raises no error, and returns at most as many names as
\* asked for by view_count.
C7_NeverRaises == Done => sel.result.exc = ""

\* floor(i * N / view_count) for i = 0 .. view_count - 1
ExactPositions(n, view_count) ==
  [i \in 1..view_count |-> ((i - 1) * n) \div view_count]

\* C8 as stated: the uniform branch returns the names at the positions
\* floor(i * N / view_count), i = 0 .. view_count - 1.
C8_UniformExactFloor ==
  (Done /\ UniformCase) =>
    /\ sel.result.exc = ""
    /\ sel.result.val
         = NamesAt(ExactPositions(Len(sel.frames), Val(sel.view_count)))

\* C8 as amended: the uniform branch returns the names at view_count
\* strictly increasing positions that start at 0, the i-th of them
\* int(i * (N / view_count)) in floating point, which is
\* floor(i * N / view_count) or, only where i * N / view_count is whole, one
\* less; for N = 10 and view_count = 3 the positions are 0, 3, 6.
C8_UniformFloatFloor ==
  (Done /\ UniformCase) =>
    LET n == Len(sel.frames)
        k == Val(sel.view_count)
        pos == UniformPositions(n, k)
        exact == ExactPositions(n, k)
    IN /\ sel.result.exc = ""
       /\ sel.result.val = NamesAt(pos)
       /\ Len(pos) = k
       /\ pos[1] = 0
       /\ \A i \in 1..(k - 1) : pos[i] < pos[i + 1]
       /\ pos[k] <= n - 1
       /\ \A i \in 1..k :
            \/ pos[i] = exact[i]
            \/ pos[i] = exact[i] - 1 /\ ((i - 1) * n) % k = 0
       /\ (n = 10 /\ k = 3) => pos = <<0, 3, 6>>

\* C8 witness: N = 10, view_count = 3 selects r_0, r_3, r_6
C8_Witness ==
  /\ Done
  /\ UniformCase
  /\ sel.frames = RCatalog(10)
  /\ sel.view_count = Some(3)
  /\ sel.result.val = <<<<"r", "_", "0">>, <<"r", "_", "3">>, <<"r", "_", "6">>>>

\* C9: with names given the result is the normalized names, first
\* occurrences in input order, whatever the catalog, the indices, the
\* view_count, the strategy and the seed; names=["b", "a", "b"] gives
\* ["b", "a"].
C9_NamesFirst ==
  (Done /\ sel.names # <<>>) =>
    /\ sel.result.exc = ""
    /\ FirstOccurrencesOf(sel.result.val,
                          [i \in 1..Len(sel.names) |-> Stem(PathOf(sel.names[i]))])
    /\ sel.names = <<<<"b">>, <<"a">>, <<"b">>>>
         => sel.result.val = <<<<"b">>, <<"a">>>>

\* C9 witness: names=["b", "a", "b"] given together with indices, a
\* view_count and the random strategy, on a catalog that has no frame "b"
C9_Witness ==
  /\ Done
  /\ sel.names = <<<<"b">>, <<"a">>, <<"b">>>>
  /\ sel.indices # <<>>
  /\ sel.strategy = "random"
  /\ sel.view_count = Some(1)
  /\ Len(sel.frames) = 2
  /\ \A i \in DOMAIN sel.frames :
       _normalize_frame_name(sel.frames[i].file_path) = <<"a">>
  /\ sel.result.val = <<<<"b">>, <<"a">>>>

\* the indices that are positions of the catalog, in input order
ValidIndices ==
  LET InCatalog(idx) == 0 <= idx /\ idx < Len(sel.frames)
  IN SelectSeq(sel.indices, InCatalog)

\* C10: with no names and indices given the result is the names at the
\* indices i with 0 <= i < N, first occurrences in input order; an index
\* outside that range adds nothing; N = 5, indices=[0, 4, 10, -1] keeps
\* positions 0 and 4.
C10_IndexSelection ==
  (Done /\ sel.names = <<>> /\ sel.indices # <<>>) =>
    /\ sel.result.exc = ""
    /\ FirstOccurrencesOf(sel.result.val, NamesAt(ValidIndices))
    /\ (sel.frames = RCatalog(5) /\ sel.indices = <<0, 4, 10, -1>>)
         => sel.result.val = NamesAt(<<0, 4>>)

\* C10 witness: N = 5, indices=[0, 4, 10, -1] selects r_0, r_4
C10_Witness ==
  /\ Done
  /\ sel.names = <<>>
  /\ sel.frames = RCatalog(5)
  /\ sel.indices = <<0, 4, 10, -1>>
  /\ sel.result.val = <<<<"r", "_", "0">>, <<"r", "_", "4">>>>

(***************************************************************************)
(* Properties of the subset assembler on any layout of the two             *)
(* directories (specification SpecPlaced).                                 *)
(***************************************************************************)
\* C11: the raw dataset is a read-only input: wherever subset_dir lies
\* (raw_data_dir itself and a directory above it included), a call of
\* create_view_subset, successful or not, deletes and modifies no manifest
\* and no image file under raw_data_dir.
C11_RawReadOnly == [][raw' = raw]_vars

(***************************************************************************)
(* Properties of the experiment driver (specification SpecBatch).          *)
(***************************************************************************)
\* C12: when the subset build of a configuration fails with a filesystem
\* or precondition error (no training manifest, a missing source image),
\* run_experiment logs the failure and goes on with the next
\* configuration: one failing configuration does not abort the batch, and
\* a run over at least one configuration ends (no step of run_experiment
\* is left to take) only when its loop is over and every configuration was
\* attempted.
BatchEnded == batch.pc \in {"finished", "aborted"}

C12_BatchContinues ==
  (BatchEnded /\ batch.configs # <<>>) =>
    /\ batch.pc = "finished"
    /\ Range(batch.attempted) = DOMAIN batch.configs

=============================================================================
